---- MODULE Spec2Model ----
(***************************************************************************)
(* A model of Mortgage_Algo.py: the Mortgage class (constructor, fixed     *)
(* periodic payment, amortization schedule, schedule summary and the       *)
(* extra-payment optimizer).                                               *)
(*                                                                         *)
(* Python floats are binary floating point numbers rounded to nearest,     *)
(* ties to even.  The model keeps that arithmetic and narrows the          *)
(* significand from 53 bits to PrecBits bits; the exponent is unbounded    *)
(* (no overflow, underflow or subnormals, no signed zero).  A float is the *)
(* record [m, e] standing for m * 2^e, with m odd or m = e = 0, so that    *)
(* equal numbers are equal records.  An operation binds its operands with  *)
(* a bound variable, so that nested operations evaluate each operand once. *)
(***************************************************************************)
EXTENDS Integers, Sequences, FiniteSets

\* Width of the significand of a float of the model (53 in CPython).
PrecBits == 6

\* Largest start_period handed to optimize_extra.
MaxStart == 7

\* Largest period a caller keys a lump sum at.
MaxLumpPeriod == 5

----------------------------------------------------------------------------
(* Floating point arithmetic *)

Abs(i) == IF i < 0 THEN -i ELSE i

Sign(i) == IF i < 0 THEN -1 ELSE IF i = 0 THEN 0 ELSE 1

RECURSIVE BitLen(_)
BitLen(a) == IF a = 0 THEN 0 ELSE 1 + BitLen(a \div 2)

\* The record of m * 2^e with the trailing zero bits of m moved to e.
RECURSIVE Canon(_, _)
Canon(m, e) ==
    IF m = 0 THEN [m |-> 0, e |-> 0]
    ELSE IF m % 2 = 0 THEN Canon(m \div 2, e + 1)
    ELSE [m |-> m, e |-> e]

\* m * 2^e rounded to PrecBits significant bits, nearest, ties to even.
Round(m, e) ==
    LET a == Abs(m)
        len == BitLen(a)
    IN  IF len <= PrecBits THEN Canon(m, e)
        ELSE LET k == len - PrecBits
                 q == a \div (2^k)
                 r == a % (2^k)
                 half == 2^(k - 1)
                 up == r > half \/ (r = half /\ q % 2 = 1)
             IN  Canon(Sign(m) * (IF up THEN q + 1 ELSE q), e + k)

\* (am * 2^ae) / (bm * 2^be) rounded, bm # 0: the quotient is taken to
\* PrecBits + 2 bits or more and a sticky bit stands for the remainder.
RoundDiv(am, ae, bm, be) ==
    IF am = 0 THEN [m |-> 0, e |-> 0]
    ELSE LET a == Abs(am)
             b == Abs(bm)
             want == BitLen(b) + PrecBits + 2 - BitLen(a)
             s == IF want > 0 THEN want ELSE 0
             n == a * (2^s)
             q == n \div b
             sticky == IF n % b = 0 THEN 0 ELSE 1
         IN  Round(Sign(am) * Sign(bm) * (2 * q + sticky), ae - s - be - 1)

Zero == [m |-> 0, e |-> 0]

\* float(i), and an int operand of a float operation
FromInt(i) == Round(i, 0)

One == FromInt(1)

\* Bit position above the leading bit of a # 0.
Top(a) == a.e + BitLen(Abs(a.m))

FNeg(x) == [m |-> -x.m, e |-> x.e]

\* The rounded sum of the floats a and b: an operand below a quarter of the
\* other's last place does not change it, otherwise the exact sum is rounded.
Add(a, b) ==
    IF a.m = 0 THEN b
    ELSE IF b.m = 0 THEN a
    ELSE IF Top(a) - Top(b) >= PrecBits + 2 THEN a
    ELSE IF Top(b) - Top(a) >= PrecBits + 2 THEN b
    ELSE LET e == IF a.e < b.e THEN a.e ELSE b.e
         IN  Round(a.m * (2^(a.e - e)) + b.m * (2^(b.e - e)), e)

\* x + y
FAdd(x, y) == CHOOSE r \in {Add(a, b) : a \in {x}, b \in {y}} : TRUE

\* x - y
FSub(x, y) == CHOOSE r \in {Add(a, FNeg(b)) : a \in {x}, b \in {y}} : TRUE

\* x * y
FMul(x, y) ==
    CHOOSE r \in {Round(a.m * b.m, a.e + b.e) : a \in {x}, b \in {y}} : TRUE

\* x / y for y # 0 (Python raises ZeroDivisionError for y = 0)
FDiv(x, y) ==
    CHOOSE r \in {RoundDiv(a.m, a.e, b.m, b.e) : a \in {x}, b \in {y}} : TRUE

\* The exact power a ** n, rounded once; a # 0 when n < 0.
Pow(a, n) ==
    IF n >= 0 THEN Round(a.m ^ n, a.e * n)
    ELSE RoundDiv(1, 0, a.m ^ (-n), a.e * (-n))

\* x ** n for an int n
FPow(x, n) == CHOOSE r \in {Pow(a, n) : a \in {x}} : TRUE

\* Rounding keeps the sign of a difference, so comparisons are exact.
FLt(x, y) == FSub(x, y).m < 0

FLe(x, y) == FSub(x, y).m <= 0

FGt(x, y) == FLt(y, x)

\* max(x, y): the first argument unless the second is greater
FMax(x, y) ==
    CHOOSE r \in {IF FGt(b, a) THEN b ELSE a : a \in {x}, b \in {y}} : TRUE

\* int(x): truncation toward zero
Trunc(x) ==
    CHOOSE r \in {IF a.e >= 0 THEN a.m * (2^a.e)
                  ELSE Sign(a.m) * (Abs(a.m) \div (2^(-a.e))) : a \in {x}} : TRUE

\* math.ceil(x)
Ceil(x) ==
    CHOOSE r \in {IF a.e >= 0 THEN a.m * (2^a.e)
                  ELSE -((-a.m) \div (2^(-a.e))) : a \in {x}} : TRUE

----------------------------------------------------------------------------
(* Inputs *)

\* principal: a usual amount, zero and a negative amount
Principals == {FromInt(96), Zero, FromInt(-96)}

\* annual_rate, in percent
Rates == {FromInt(100), FromInt(9)}

\* years: -1, 0, 1, 1.5 and 2
YearsChoices == {FromInt(-1), Zero, One, Round(3, -1), FromInt(2)}

\* compounds_per_year
CompoundsChoices == {0, 1, 2}

\* recurring_extra
RecurringChoices == {Zero, FromInt(8), FromInt(64), FromInt(-8)}

\* amounts of a lump sum
LumpAmounts == {FromInt(8), FromInt(64)}

\* lumpsum_extras: None (the empty dict), one key, or two keys
EmptyDict == [p \in {} |-> Zero]

LumpsumChoices ==
    {EmptyDict}
    \cup {[p \in {k} |-> v] : k \in 1..MaxLumpPeriod, v \in LumpAmounts}
    \cup {[p \in {1, 3} |-> FromInt(8)]}

\* total_extra_budget
BudgetChoices == {Zero, FromInt(64), FromInt(-64)}

\* start_period
StartChoices == 0..MaxStart

----------------------------------------------------------------------------
(* Mortgage.__init__ and _calc_periodic_payment *)

\* self.annual_rate = annual_rate / 100.0
AnnualRate(annual_rate) == FDiv(annual_rate, FromInt(100))

\* self.monthly_rate = self.annual_rate / compounds_per_year
MonthlyRate(annual_rate, compounds_per_year) ==
    FDiv(AnnualRate(annual_rate), FromInt(compounds_per_year))

\* self.total_periods = int(years * compounds_per_year)
TotalPeriods(years, compounds_per_year) ==
    Trunc(FMul(years, FromInt(compounds_per_year)))

\* P * (r * (1 + r) ** n) / ((1 + r) ** n - 1)
calc_periodic_payment(P, r, n) ==
    LET pw == FPow(FAdd(One, r), n)
    IN  FDiv(FMul(P, FMul(r, pw)), FSub(pw, One))

\* The constructor raises ZeroDivisionError: a division by a zero
\* compounds_per_year, 0.0 to a negative power, or a zero denominator
\* of the payment formula.
InitRaises(a) ==
    IF a.compounds_per_year = 0 THEN TRUE
    ELSE LET r == MonthlyRate(a.annual_rate, a.compounds_per_year)
             n == TotalPeriods(a.years, a.compounds_per_year)
             base == FAdd(One, r)
         IN  IF base.m = 0 /\ n < 0 THEN TRUE
             ELSE FSub(FPow(base, n), One).m = 0

\* The fields of the constructed object.
NewMortgage(a) ==
    LET r == MonthlyRate(a.annual_rate, a.compounds_per_year)
        n == TotalPeriods(a.years, a.compounds_per_year)
    IN  [principal |-> a.principal,
         annual_rate |-> AnnualRate(a.annual_rate),
         years |-> a.years,
         compounds_per_year |-> a.compounds_per_year,
         monthly_rate |-> r,
         total_periods |-> n,
         monthly_payment |-> calc_periodic_payment(a.principal, r, n)]

----------------------------------------------------------------------------
(* Mortgage.amortization_schedule *)

\* lumpsum_extras.get(period, 0.0)
Get(lumpsum_extras, period) ==
    IF period \in DOMAIN lumpsum_extras THEN lumpsum_extras[period] ELSE Zero

\* interest = balance * self.monthly_rate
Interest(self, balance) == FMul(balance, self.monthly_rate)

\* extra = recurring_extra + lumpsum_extras.get(period, 0.0)
Extra(recurring_extra, lumpsum_extras, period) ==
    FAdd(recurring_extra, Get(lumpsum_extras, period))

OverpaysOrEqual(principal_paid, extra, balance) ==
    FLe(balance, FAdd(principal_paid, extra))

\* if principal_paid + extra > balance
Overpays(principal_paid, extra, balance) ==
    FGt(FAdd(principal_paid, extra), balance)

CappedPaymentNoInterest(balance, interest) == balance

\* payment = balance + interest
CappedPayment(balance, interest) == FAdd(balance, interest)

NewBalanceExtraAdded(balance, principal_paid, extra) ==
    FSub(balance, FSub(principal_paid, extra))

\* balance -= principal_paid + extra
NewBalance(balance, principal_paid, extra) ==
    FSub(balance, FAdd(principal_paid, extra))

\* One pass of the loop body: the entry appended and the running balance.
Period(self, recurring_extra, lumpsum_extras, period, balance) ==
    LET interest == Interest(self, balance)
        paid0 == FSub(self.monthly_payment, interest)
        extra0 == Extra(recurring_extra, lumpsum_extras, period)
        over == Overpays(paid0, extra0, balance)
        principal_paid == IF over THEN balance ELSE paid0
        payment == IF over THEN CappedPayment(balance, interest)
                   ELSE FAdd(self.monthly_payment, extra0)
        extra == IF over THEN Zero ELSE extra0
        after == NewBalance(balance, principal_paid, extra)
    IN  [entry |-> [period |-> period,
                    payment |-> payment,
                    interest |-> interest,
                    principal |-> principal_paid,
                    extra |-> extra,
                    balance |-> FMax(after, Zero)],
         balance |-> after]

\* The loop from `period` on: for period in range(1, total_periods + 1),
\* left by the break once balance <= 0.
RECURSIVE ScheduleFrom(_, _, _, _, _, _)
ScheduleFrom(self, recurring_extra, lumpsum_extras, period, balance, schedule) ==
    IF period > self.total_periods THEN schedule
    ELSE CHOOSE result \in
             {IF FLe(step.balance, Zero) THEN Append(schedule, step.entry)
              ELSE ScheduleFrom(self, recurring_extra, lumpsum_extras, period + 1,
                                step.balance, Append(schedule, step.entry)) :
                 step \in {Period(self, recurring_extra, lumpsum_extras,
                                  period, balance)}} : TRUE

amortization_schedule(self, recurring_extra, lumpsum_extras) ==
    ScheduleFrom(self, recurring_extra, lumpsum_extras, 1, self.principal, <<>>)

----------------------------------------------------------------------------
(* Mortgage.summarize_schedule *)

\* sum(x[field] for x in schedule[i..]) continued from the partial sum acc
RECURSIVE SumFrom(_, _, _, _)
SumFrom(schedule, field, i, acc) ==
    IF i > Len(schedule) THEN acc
    ELSE SumFrom(schedule, field, i + 1, FAdd(acc, schedule[i][field]))

\* sum(x[field] for x in schedule), from the int 0
Sum(schedule, field) == SumFrom(schedule, field, 1, Zero)

\* schedule[-1] raises IndexError on an empty schedule
SummarizeRaises(schedule) == Len(schedule) = 0

summarize_schedule(schedule) ==
    [total_paid |-> Sum(schedule, "payment"),
     total_interest |-> Sum(schedule, "interest"),
     periods_used |-> schedule[Len(schedule)].period]

----------------------------------------------------------------------------
(* Mortgage.optimize_extra *)

\* lumpsum = {start_period: total_extra_budget}
SingleLumpsum(start_period, total_extra_budget) ==
    [p \in {start_period} |-> total_extra_budget]

\* remaining_periods = self.total_periods - start_period + 1
RemainingPeriods(self, start_period) == self.total_periods - start_period + 1

\* monthly_extra = total_extra_budget / remaining_periods
MonthlyExtra(total_extra_budget, remaining_periods) ==
    FDiv(total_extra_budget, FromInt(remaining_periods))

\* years = math.ceil((self.total_periods - start_period + 1) / self.compounds_per_year)
AnnualYears(self, start_period) ==
    Ceil(FDiv(FromInt(self.total_periods - start_period + 1),
              FromInt(self.compounds_per_year)))

AnnualPeriodsStrict(self, start_period, years) ==
    {p \in {start_period + i * self.compounds_per_year : i \in 0..(years - 1)} :
        p < self.total_periods}

\* The keys of lumpsum_annual: start_period + i * compounds_per_year for i in
\* range(years), kept if <= total_periods.
AnnualPeriods(self, start_period, years) ==
    {p \in {start_period + i * self.compounds_per_year : i \in 0..(years - 1)} :
        p <= self.total_periods}

\* lumpsum_annual
LumpsumAnnual(self, start_period, years, annual_extra) ==
    [p \in AnnualPeriods(self, start_period, years) |-> annual_extra]

LessOrEqualInterest(item, best) ==
    FLe(item.summary.total_interest, best.summary.total_interest)

\* min() moves to a later item only if its key is less than the best so far.
LessInterest(item, best) ==
    FLt(item.summary.total_interest, best.summary.total_interest)

\* min(results.items(), key=total_interest) from item i on
RECURSIVE MinFrom(_, _, _)
MinFrom(items, i, best) ==
    IF i > Len(items) THEN best
    ELSE MinFrom(items, i + 1, IF LessInterest(items[i], best) THEN items[i] ELSE best)

MinByInterest(items) == MinFrom(items, 2, items[1])

NoSummary == [total_paid |-> Zero, total_interest |-> Zero, periods_used |-> 0]

NoItem == [name |-> "none", summary |-> NoSummary]

\* optimize_extra's locals before the call: results is the insertion-ordered
\* dict, a sequence of (name, summary) items; scheds keeps the schedule
\* generated for each item, in the same order.
NoOptimize ==
    [results |-> <<>>, scheds |-> <<>>, years |-> 0,
     lumpsum_annual |-> EmptyDict, best |-> NoItem]

\* results[name] = self.summarize_schedule(sched)
Record(o, name, sched) ==
    [o EXCEPT !.results = Append(@, [name |-> name,
                                     summary |-> summarize_schedule(sched)]),
              !.scheds = Append(@, sched)]

----------------------------------------------------------------------------
(* The state machine: a caller constructs a Mortgage and calls one method *)

VARIABLES
    pc,        \* where the caller is
    args,      \* the constructor's arguments
    loan,      \* the fields of the Mortgage object
    call,      \* the arguments of the method called
    schedule,  \* the list amortization_schedule returned
    summary,   \* the dict summarize_schedule returned
    opt,       \* optimize_extra's locals and the tuple it returns
    raised     \* the exception raised, or "none"

vars == <<pc, args, loan, call, schedule, summary, opt, raised>>

NoLoan ==
    [principal |-> Zero, annual_rate |-> Zero, years |-> Zero,
     compounds_per_year |-> 0, monthly_rate |-> Zero, total_periods |-> 0,
     monthly_payment |-> Zero]

NoCall ==
    [op |-> "none", recurring_extra |-> Zero, lumpsum_extras |-> EmptyDict,
     total_extra_budget |-> Zero, start_period |-> 0]

Init ==
    /\ pc = "new"
    /\ args \in [principal : Principals, annual_rate : Rates,
                 years : YearsChoices, compounds_per_year : CompoundsChoices]
    /\ loan = NoLoan
    /\ call = NoCall
    /\ schedule = <<>>
    /\ summary = NoSummary
    /\ opt = NoOptimize
    /\ raised = "none"

\* Mortgage(principal, annual_rate, years, compounds_per_year)
MortgageInit ==
    /\ pc = "new"
    /\ pc' = IF InitRaises(args) THEN "raised" ELSE "ready"
    /\ raised' = IF InitRaises(args) THEN "ZeroDivisionError" ELSE raised
    /\ loan' = IF InitRaises(args) THEN loan ELSE NewMortgage(args)
    /\ UNCHANGED <<args, call, schedule, summary, opt>>

\* loan.amortization_schedule(recurring_extra, lumpsum_extras)
AmortizationSchedule ==
    /\ pc = "ready"
    /\ \E recurring_extra \in RecurringChoices, lumpsum_extras \in LumpsumChoices :
          /\ call' = [NoCall EXCEPT !.op = "amortization_schedule",
                                    !.recurring_extra = recurring_extra,
                                    !.lumpsum_extras = lumpsum_extras]
          /\ schedule' = amortization_schedule(loan, recurring_extra, lumpsum_extras)
    /\ pc' = "scheduled"
    /\ UNCHANGED <<args, loan, summary, opt, raised>>

\* loan.summarize_schedule(schedule) on the schedule just generated
SummarizeSchedule ==
    /\ pc = "scheduled"
    /\ pc' = IF SummarizeRaises(schedule) THEN "raised" ELSE "summarized"
    /\ raised' = IF SummarizeRaises(schedule) THEN "IndexError" ELSE raised
    /\ summary' = IF SummarizeRaises(schedule) THEN summary
                  ELSE summarize_schedule(schedule)
    /\ UNCHANGED <<args, loan, call, schedule, opt>>

\* loan.optimize_extra(total_extra_budget, start_period), strategy 1:
\* a single lump sum at start_period.
SingleLumpsumStrategy ==
    /\ pc = "ready"
    /\ \E total_extra_budget \in BudgetChoices, start_period \in StartChoices :
          /\ call' = [NoCall EXCEPT !.op = "optimize_extra",
                                    !.total_extra_budget = total_extra_budget,
                                    !.start_period = start_period]
          /\ \E sched \in {amortization_schedule(
                              loan, Zero,
                              SingleLumpsum(start_period, total_extra_budget))} :
                /\ pc' = IF SummarizeRaises(sched) THEN "raised" ELSE "uniform"
                /\ raised' = IF SummarizeRaises(sched) THEN "IndexError" ELSE raised
                /\ opt' = IF SummarizeRaises(sched) THEN opt
                          ELSE Record(opt, "single_lumpsum", sched)
    /\ UNCHANGED <<args, loan, schedule, summary>>

\* optimize_extra, strategy 2: a uniform extra every period, evaluated only
\* if remaining_periods > 0.
UniformMonthlyStrategy ==
    /\ pc = "uniform"
    /\ \E sched \in {IF RemainingPeriods(loan, call.start_period) > 0
                     THEN amortization_schedule(
                              loan,
                              MonthlyExtra(call.total_extra_budget,
                                           RemainingPeriods(loan, call.start_period)),
                              EmptyDict)
                     ELSE <<>>} :
          IF RemainingPeriods(loan, call.start_period) > 0
          THEN /\ pc' = IF SummarizeRaises(sched) THEN "raised" ELSE "annual"
               /\ raised' = IF SummarizeRaises(sched) THEN "IndexError" ELSE raised
               /\ opt' = IF SummarizeRaises(sched) THEN opt
                         ELSE Record(opt, "uniform_monthly", sched)
          ELSE /\ pc' = "annual"
               /\ UNCHANGED <<raised, opt>>
    /\ UNCHANGED <<args, loan, call, schedule, summary>>

\* optimize_extra, strategy 3: annual lump sums from start_period on.
AnnualLumpsumStrategy ==
    /\ pc = "annual"
    /\ \E years \in {AnnualYears(loan, call.start_period)} :
          IF years = 0
          THEN /\ pc' = "raised"
               /\ raised' = "ZeroDivisionError"
               /\ UNCHANGED opt
          ELSE \E lumpsum_annual \in
                   {LumpsumAnnual(loan, call.start_period, years,
                                  FDiv(call.total_extra_budget, FromInt(years)))} :
               \E sched \in {amortization_schedule(loan, Zero, lumpsum_annual)} :
                  /\ pc' = IF SummarizeRaises(sched) THEN "raised" ELSE "select"
                  /\ raised' = IF SummarizeRaises(sched) THEN "IndexError" ELSE raised
                  /\ opt' = IF SummarizeRaises(sched) THEN opt
                            ELSE [Record(opt, "annual_lumpsum", sched)
                                     EXCEPT !.years = years,
                                            !.lumpsum_annual = lumpsum_annual]
    /\ UNCHANGED <<args, loan, call, schedule, summary>>

\* optimize_extra: best = min(results.items(), ...) and the return
SelectBest ==
    /\ pc = "select"
    /\ opt' = [opt EXCEPT !.best = MinByInterest(opt.results)]
    /\ pc' = "optimized"
    /\ UNCHANGED <<args, loan, call, schedule, summary, raised>>

Next ==
    \/ MortgageInit
    \/ AmortizationSchedule
    \/ SummarizeSchedule
    \/ SingleLumpsumStrategy
    \/ UniformMonthlyStrategy
    \/ AnnualLumpsumStrategy
    \/ SelectBest

Spec == Init /\ [][Next]_vars

----------------------------------------------------------------------------
(* What the claims speak of *)

\* The constructor returned: a Mortgage object exists.
Constructed == pc # "new" /\ ~(pc = "raised" /\ call.op = "none")

\* A loan as the specification expects it: principal, rate and term
\* positive, at least one compounding period a year.
UsualLoan ==
    /\ Constructed
    /\ args.principal.m > 0
    /\ args.annual_rate.m > 0
    /\ args.years.m > 0
    /\ args.compounds_per_year >= 1

\* amortization_schedule has returned, called with non-negative extras.
Scheduled ==
    /\ pc \in {"scheduled", "summarized"}
    /\ call.op = "amortization_schedule"

NonNegativeExtras ==
    /\ call.recurring_extra.m >= 0
    /\ \A p \in DOMAIN call.lumpsum_extras : call.lumpsum_extras[p].m >= 0

SomePositiveExtra ==
    \/ call.recurring_extra.m > 0
    \/ \E p \in DOMAIN call.lumpsum_extras : call.lumpsum_extras[p].m > 0

\* The balance entry i of the returned schedule started from.
StartBalance(i) == IF i = 1 THEN loan.principal ELSE schedule[i - 1].balance

\* periodic_payment - interest of entry i, before any cap
UncappedPrincipal(i) == FSub(loan.monthly_payment, schedule[i].interest)

\* recurring_extra + lump sum of entry i, before any cap
RequestedExtra(i) ==
    FAdd(call.recurring_extra, Get(call.lumpsum_extras, schedule[i].period))

\* The summary of the schedule generated with no extras.
Baseline == summarize_schedule(amortization_schedule(loan, Zero, EmptyDict))

\* optimize_extra was called within its documented domain.
OptimizeInDomain ==
    /\ call.op = "optimize_extra"
    /\ call.total_extra_budget.m >= 0
    /\ call.start_period \in 1..loan.total_periods

\* The schedule of the strategy called name, generated afresh.
StrategySchedule(name) ==
    IF name = "single_lumpsum"
    THEN amortization_schedule(
             loan, Zero, SingleLumpsum(call.start_period, call.total_extra_budget))
    ELSE IF name = "uniform_monthly"
    THEN amortization_schedule(
             loan,
             MonthlyExtra(call.total_extra_budget,
                          RemainingPeriods(loan, call.start_period)),
             EmptyDict)
    ELSE amortization_schedule(loan, Zero, opt.lumpsum_annual)

----------------------------------------------------------------------------
(* C1 *)

\* C1: for a loan with rate > 0, a budget >= 0 and a start_period in
\* [1, total_periods], optimize_extra returns; the candidates are the three
\* strategies in the order single_lumpsum, uniform_monthly, annual_lumpsum;
\* the returned summary is the summary of the returned tag's schedule; its
\* total_interest is the least of the candidates'; no earlier candidate has
\* the same total_interest; with budget = 0 every candidate equals the
\* no-extra baseline and single_lumpsum is returned.
C1_OptimizeReturnsFirstMinimum ==
    (UsualLoan /\ OptimizeInDomain /\ pc \in {"optimized", "raised"}) =>
        /\ pc = "optimized"
        /\ [i \in 1..Len(opt.results) |-> opt.results[i].name]
              = <<"single_lumpsum", "uniform_monthly", "annual_lumpsum">>
        /\ \E i \in 1..Len(opt.results) :
              /\ opt.best = opt.results[i]
              /\ opt.best.summary = summarize_schedule(StrategySchedule(opt.best.name))
              /\ \A j \in 1..Len(opt.results) :
                    FLe(opt.best.summary.total_interest,
                        opt.results[j].summary.total_interest)
              /\ \A j \in 1..(i - 1) :
                    FLt(opt.best.summary.total_interest,
                        opt.results[j].summary.total_interest)
        /\ call.total_extra_budget = Zero =>
              /\ opt.best.name = "single_lumpsum"
              /\ \A j \in 1..Len(opt.results) :
                    opt.results[j].summary.total_interest = Baseline.total_interest

\* optimize_extra returned a strategy other than the first for a positive
\* budget.
C1_Witness ==
    /\ UsualLoan /\ OptimizeInDomain /\ pc = "optimized"
    /\ call.total_extra_budget.m > 0
    /\ opt.best.name # "single_lumpsum"
    /\ Len(opt.results) = 3

----------------------------------------------------------------------------
(* C2 *)

\* C2: in the uniform strategy of optimize_extra(budget, start_period) every
\* schedule entry with period < start_period has extra = 0, and the extras
\* of the schedule sum to no more than the budget.
C2_UniformOnlyFromStart ==
    (UsualLoan /\ OptimizeInDomain /\ pc = "optimized") =>
        /\ \A i \in 1..Len(opt.scheds[2]) :
              opt.scheds[2][i].period < call.start_period
                  => opt.scheds[2][i].extra = Zero
        /\ FLe(Sum(opt.scheds[2], "extra"), call.total_extra_budget)

----------------------------------------------------------------------------
(* C3 *)

\* C3 as stated: a schedule generated with a positive recurring_extra or a
\* positive lump sum has periods_used <= total_periods and a total_interest
\* strictly less than the total_interest with no extras.
C3_StrictlyLessInterest ==
    (UsualLoan /\ Scheduled /\ pc = "summarized"
        /\ NonNegativeExtras /\ SomePositiveExtra) =>
        /\ summary.periods_used <= loan.total_periods
        /\ FLt(summary.total_interest, Baseline.total_interest)

\* C3 amended: with non-negative extras, one of them positive,
\* periods_used <= total_periods and total_interest is at most the
\* total_interest with no extras.
C3_NoMoreInterest ==
    (UsualLoan /\ Scheduled /\ pc = "summarized"
        /\ NonNegativeExtras /\ SomePositiveExtra) =>
        /\ summary.periods_used <= loan.total_periods
        /\ FLe(summary.total_interest, Baseline.total_interest)

\* A lump sum before the last period paid the loan off early and saved
\* interest.
C3_Witness ==
    /\ UsualLoan /\ Scheduled /\ pc = "summarized"
    /\ NonNegativeExtras /\ SomePositiveExtra
    /\ summary.periods_used < loan.total_periods
    /\ FLt(summary.total_interest, Baseline.total_interest)

----------------------------------------------------------------------------
(* C4 *)

\* C4: with rate > 0 and non-negative extras the recorded balance never
\* increases from one entry to the next, the first is at most the principal,
\* the last entry's balance is exactly 0 and no earlier entry's is.
C4_BalanceEndsAtZero ==
    (UsualLoan /\ Scheduled /\ NonNegativeExtras) =>
        /\ \A i \in 1..Len(schedule) : FLe(schedule[i].balance, StartBalance(i))
        /\ schedule[Len(schedule)].balance = Zero
        /\ \A i \in 1..(Len(schedule) - 1) : schedule[i].balance # Zero

----------------------------------------------------------------------------
(* C5 *)

\* C5 as stated, for a usual loan and the entries that request a positive
\* extra: an entry whose principal component plus extra reaches or exceeds
\* its starting balance (exact equality included) is the last, with
\* principal = that balance, extra = 0 and payment = balance + interest; any
\* other entry has payment = periodic payment + extra.
C5_CappedWhenReached ==
    (UsualLoan /\ Scheduled /\ NonNegativeExtras) =>
        \A i \in 1..Len(schedule) :
            RequestedExtra(i).m > 0 =>
                IF FLe(StartBalance(i),
                       FAdd(UncappedPrincipal(i), RequestedExtra(i)))
                THEN /\ i = Len(schedule)
                     /\ schedule[i].principal = StartBalance(i)
                     /\ schedule[i].extra = Zero
                     /\ schedule[i].payment
                           = FAdd(StartBalance(i), schedule[i].interest)
                ELSE schedule[i].payment
                         = FAdd(loan.monthly_payment, RequestedExtra(i))

\* C5 amended: the entry is capped (principal = starting balance, extra = 0,
\* payment = balance + interest, last entry) only when principal component
\* plus extra exceeds the starting balance.  Otherwise the payment is the
\* periodic payment plus the extra, with the extra and the principal
\* component kept; on exact equality that uncapped entry is the last and
\* leaves the balance 0.
C5_CappedWhenExceeded ==
    Scheduled =>
        \A i \in 1..Len(schedule) :
            IF FGt(FAdd(UncappedPrincipal(i), RequestedExtra(i)), StartBalance(i))
            THEN /\ i = Len(schedule)
                 /\ schedule[i].principal = StartBalance(i)
                 /\ schedule[i].extra = Zero
                 /\ schedule[i].payment = FAdd(StartBalance(i), schedule[i].interest)
            ELSE /\ schedule[i].payment = FAdd(loan.monthly_payment, RequestedExtra(i))
                 /\ schedule[i].extra = RequestedExtra(i)
                 /\ schedule[i].principal = UncappedPrincipal(i)
                 /\ FAdd(UncappedPrincipal(i), RequestedExtra(i)) = StartBalance(i)
                        => i = Len(schedule) /\ schedule[i].balance = Zero

\* An entry whose principal component plus a positive extra equals its
\* starting balance, before the last period of the term.
C5_Witness ==
    /\ UsualLoan /\ Scheduled
    /\ \E i \in 1..Len(schedule) :
          /\ FAdd(UncappedPrincipal(i), RequestedExtra(i)) = StartBalance(i)
          /\ RequestedExtra(i).m > 0
          /\ schedule[i].period < loan.total_periods

----------------------------------------------------------------------------
(* C6 *)

\* C6: optimize_extra called with a negative budget, or with a start_period
\* below 1 or above total_periods, fails and never returns a result.
C6_RejectsBadOptimizeInput ==
    (UsualLoan /\ call.op = "optimize_extra"
        /\ (\/ call.total_extra_budget.m < 0
            \/ call.start_period < 1
            \/ call.start_period > loan.total_periods)) =>
        pc # "optimized"

----------------------------------------------------------------------------
(* C7 *)

\* C7: constructing a loan with principal <= 0, years <= 0 or
\* compounds_per_year < 1 fails; no loan object comes of such arguments.
C7_RejectsBadTerms ==
    (\/ args.principal.m <= 0
     \/ args.years.m <= 0
     \/ args.compounds_per_year < 1) =>
        ~Constructed

----------------------------------------------------------------------------
(* C8 *)

\* C8: for a loan with rate > 0 and total_periods >= 1 the schedule
\* generated with no extras has the entries of periods 1..total_periods,
\* and its summary's periods_used is total_periods.
C8_BaselineUsesAllPeriods ==
    (UsualLoan /\ Scheduled /\ pc = "summarized"
        /\ call.recurring_extra = Zero /\ call.lumpsum_extras = EmptyDict) =>
        /\ Len(schedule) = loan.total_periods
        /\ \A i \in 1..Len(schedule) : schedule[i].period = i
        /\ summary.periods_used = loan.total_periods

----------------------------------------------------------------------------
(* C9 *)

\* The entry was capped by the early-payoff branch.
Capped(i) ==
    FGt(FAdd(UncappedPrincipal(i), RequestedExtra(i)), StartBalance(i))

\* interest + principal + extra of entry i, as Python adds them
Recomposed(i) ==
    FAdd(FAdd(schedule[i].interest, schedule[i].principal), schedule[i].extra)

\* C9 as stated, for a usual loan and non-negative extras: every entry has
\* payment = interest + principal + extra and extra >= 0.
C9_PaymentIsSumOfParts ==
    (UsualLoan /\ Scheduled /\ NonNegativeExtras) =>
        \A i \in 1..Len(schedule) :
            /\ schedule[i].payment = Recomposed(i)
            /\ schedule[i].extra.m >= 0

\* C9 amended: a capped entry has payment = interest + principal + extra;
\* any other entry has payment = periodic payment + extra and
\* principal = periodic payment - interest, each rounded once, so that the
\* sum of its parts is the payment only up to rounding; extra >= 0 when the
\* inputs are non-negative.
C9_PaymentIsSumOfPartsRounded ==
    Scheduled =>
        \A i \in 1..Len(schedule) :
            /\ IF Capped(i)
               THEN schedule[i].payment = Recomposed(i)
               ELSE /\ schedule[i].payment
                          = FAdd(loan.monthly_payment, schedule[i].extra)
                    /\ schedule[i].principal
                          = FSub(loan.monthly_payment, schedule[i].interest)
            /\ NonNegativeExtras => schedule[i].extra.m >= 0

\* A schedule with a capped last entry bearing interest and an earlier entry
\* whose parts do not add up to its payment.
C9_Witness ==
    /\ UsualLoan /\ Scheduled /\ NonNegativeExtras
    /\ Capped(Len(schedule))
    /\ schedule[Len(schedule)].interest.m > 0
    /\ \E i \in 1..(Len(schedule) - 1) : schedule[i].payment # Recomposed(i)

----------------------------------------------------------------------------
(* C10 *)

\* C10: for a start_period in [1, total_periods] the annual strategy's
\* years is ceil((total_periods - start_period + 1) / compounds_per_year),
\* the filter drops no installment (lumpsum_annual has years entries, all at
\* periods in [start_period, total_periods], each budget / years); for a
\* start_period in (total_periods, total_periods + compounds_per_year]
\* years is 0 and the strategy raises ZeroDivisionError.
C10_AnnualInstallments ==
    (Constructed /\ loan.total_periods >= 1 /\ call.op = "optimize_extra"
        /\ pc \in {"select", "optimized", "raised"}) =>
        /\ call.start_period \in 1..loan.total_periods =>
              /\ pc # "raised"
              /\ opt.years * loan.compounds_per_year
                    >= loan.total_periods - call.start_period + 1
              /\ (opt.years - 1) * loan.compounds_per_year
                    < loan.total_periods - call.start_period + 1
              /\ Cardinality(DOMAIN opt.lumpsum_annual) = opt.years
              /\ DOMAIN opt.lumpsum_annual
                    \subseteq call.start_period..loan.total_periods
              /\ \A p \in DOMAIN opt.lumpsum_annual :
                    opt.lumpsum_annual[p]
                        = FDiv(call.total_extra_budget, FromInt(opt.years))
        /\ call.start_period \in (loan.total_periods + 1)
                                     ..(loan.total_periods + loan.compounds_per_year) =>
              /\ pc = "raised"
              /\ raised = "ZeroDivisionError"

\* Several annual installments from a start_period after the first period,
\* the last one at the loan's last period.
C10_Witness ==
    /\ Constructed /\ pc = "optimized"
    /\ call.start_period > 1
    /\ loan.compounds_per_year = 2
    /\ opt.years >= 2
    /\ loan.total_periods \in DOMAIN opt.lumpsum_annual

====
